---- MODULE Spec2Model ----
(***************************************************************************)
(* Segment synchronisation and playback control of the ESL video player   *)
(* (frontend/src/components/ESLVideoPlayer.jsx).                           *)
(*                                                                         *)
(* Times are integers counting twentieths of a second (0.05 s): every      *)
(* constant of the code (0.15, 0.3, 0.5, 0.1) is a whole number of them.   *)
(* Segment indices are the code's 0-based indices; a TLA+ sequence holds   *)
(* the segment of index i at position i + 1.                               *)
(***************************************************************************)
EXTENDS Integers, Sequences, FiniteSets, TLC

(***************************************************************************)
(* Constants of calculatePreciseTiming.                                    *)
(***************************************************************************)
START_BUFFER == 3
END_BUFFER == 6
MIN_END_BUFFER == 3
LARGE_GAP == 10
MODERATE_GAP == 2

(***************************************************************************)
(* Bounds of the pure-function specifications.                             *)
(***************************************************************************)
MaxSegStart == 2
MaxSegEnd == 13
MaxWordStart == 4
MaxWordEnd == 2
MaxWords == 2
MaxWordTime == 10
MaxEditMinutes == 1
MaxResolveSegs == 2
MaxResolveSteps == 5
MaxResolveTime == 22

(***************************************************************************)
(* Bounds of the controller specifications.                                *)
(***************************************************************************)
MediaDuration == 8
ScenarioDuration == 50
MaxListeners == 1
MaxInitTimers == 1
MaxEndTimers == 1
RepeatCountCap == 4
SeekDuration == 24
MaxAttach == 2
MaxPlayTimers == 1

VARIABLES
    \* React state of ESLVideoPlayer (lines 15-20)
    segments, currentSegment, playbackMode, repeatCount,
    \* refs (lines 26-28): the attached player, and the pending checkEndTime
    \* timers, the last of which segmentTimeoutRef holds
    playerRef, segmentTimeout,
    \* the player: its clock, whether it is paused, the length of the media
    ptime, paused, duration,
    \* the closures registered on the player by handlePlayerReady
    listeners,
    \* pending setTimeout callbacks, each with the closure that armed it
    initTimers, replayTimers, advanceTimers,
    \* whether the component is mounted; the handle passed to the host through
    \* onPlayerReady (lines 470-494): <<>> when the host passes no
    \* onPlayerReady, else the playbackMode of the render that created the
    \* handle; the pending 100 ms timers of its playSegmentByIndex
    mounted, handle, playTimers,
    \* the playbackSpeed state (line 22) and the player's playback rate, in
    \* hundredths
    playbackSpeed, playerRate,
    \* the editedSegments state of the transcript panel (TranscriptPanel.jsx
    \* line 25); its times are in milliseconds
    editedSegments,
    \* the pending debounced segment change of the copy of the component kept
    \* in ESLVideoPlayer.css (segmentChangeTimeoutRef, line 1729): <<>> or the
    \* one timer armed last
    segmentChangeTimeout,
    \* the operations under observation, and what the last step did if it
    \* was one of them: the operation, its argument, the state it started
    \* from, the player commands and host callbacks it issued
    observed, last,
    \* inputs and outputs of the pure-function specifications
    timingIn, timingOut, resolveIn, resolveOut

pureVars == <<timingIn, timingOut, resolveIn, resolveOut>>
ctrlVars == <<segments, currentSegment, playbackMode, repeatCount, playerRef,
              segmentTimeout, ptime, paused, duration, listeners, initTimers,
              replayTimers, advanceTimers, mounted, handle, playTimers,
              playbackSpeed, playerRate, editedSegments, segmentChangeTimeout,
              observed, last>>
vars == <<segments, currentSegment, playbackMode, repeatCount, playerRef,
          segmentTimeout, ptime, paused, duration, listeners, initTimers,
          replayTimers, advanceTimers, mounted, handle, playTimers,
          playbackSpeed, playerRate, editedSegments, segmentChangeTimeout,
          observed, last,
          timingIn, timingOut, resolveIn, resolveOut>>

Max(a, b) == IF a >= b THEN a ELSE b

MinOf(S) == CHOOSE x \in S : \A y \in S : x <= y

(***************************************************************************)
(* An optional number (a word's start or end) is <<>> when the field is    *)
(* undefined, null or not a number, and <<n>> when it is the number n.     *)
(***************************************************************************)
IsNumber(x) == Len(x) = 1

\* The filter of lines 78-82: both start and end are numbers.
IsTimed(word) == IsNumber(word.start) /\ IsNumber(word.end)

wordsWithTimingAsZero(segment) ==
    [i \in 1..Len(segment.words) |->
        [start |-> IF IsNumber(segment.words[i].start)
                     THEN segment.words[i].start ELSE <<0>>,
         end   |-> IF IsNumber(segment.words[i].end)
                     THEN segment.words[i].end ELSE <<0>>]]

\* The words kept by the filter of lines 78-82.
wordsWithTiming(segment) == SelectSeq(segment.words, IsTimed)

segmentTimingMinBuffer(segment) ==
    [startTime |-> Max(0, segment.start - START_BUFFER),
     endTime   |-> segment.end + MIN_END_BUFFER,
     duration  |-> (segment.end + MIN_END_BUFFER) - Max(0, segment.start - START_BUFFER)]

\* The window of a segment without usable word timing (lines 70-74, 86-90).
segmentTiming(segment) ==
    [startTime |-> Max(0, segment.start - START_BUFFER),
     endTime   |-> segment.end + END_BUFFER,
     duration  |-> (segment.end + END_BUFFER) - Max(0, segment.start - START_BUFFER)]

preciseEndTimeNoSafety(segment, lastWordEnd) == lastWordEnd + END_BUFFER

\* The end of the window from the last timed word's end (lines 99-116).
preciseEndTime(segment, lastWordEnd) ==
    LET wordToSegmentGap == segment.end - lastWordEnd
        gapped == IF wordToSegmentGap > LARGE_GAP
                    THEN segment.end + MIN_END_BUFFER
                    ELSE IF wordToSegmentGap > MODERATE_GAP
                           THEN Max(lastWordEnd + END_BUFFER, segment.end + MIN_END_BUFFER)
                           ELSE lastWordEnd + END_BUFFER
    IN  Max(gapped, segment.end + MIN_END_BUFFER)

preciseStartTimeNoBuffer(segment, firstWordStart) == firstWordStart

\* The start of the window from the first timed word's start (line 97).
preciseStartTime(segment, firstWordStart) == Max(0, firstWordStart - START_BUFFER)

\* calculatePreciseTiming (lines 63-123).
calculatePreciseTiming(segment) ==
    IF Len(segment.words) = 0
      THEN segmentTiming(segment)
      ELSE LET timed == wordsWithTiming(segment)
           IN  IF Len(timed) = 0
                 THEN segmentTiming(segment)
                 ELSE LET firstWordStart == timed[1].start[1]
                          lastWordEnd == timed[Len(timed)].end[1]
                          s == preciseStartTime(segment, firstWordStart)
                          e == preciseEndTime(segment, lastWordEnd)
                      IN  [startTime |-> s, endTime |-> e, duration |-> e - s]

\* Array.prototype.findIndex, given the set of the indices that satisfy the
\* predicate: the first of them, or -1.
findIndex(hits) == IF hits = {} THEN 0 - 1 ELSE MinOf(hits)

activeSegmentLastMatch(segs, currentTime) ==
    LET hits == {i \in 0..(Len(segs) - 1) :
                   LET timing == calculatePreciseTiming(segs[i + 1])
                   IN  currentTime >= timing.startTime /\ currentTime <= timing.endTime}
    IN  IF hits = {} THEN 0 - 1 ELSE CHOOSE i \in hits : \A j \in hits : j <= i

\* The primary rule of handleTimeUpdate (lines 133-136).
activeSegment(segs, currentTime) ==
    LET contains(i) ==
          LET timing == calculatePreciseTiming(segs[i + 1])
          IN  currentTime >= timing.startTime /\ currentTime <= timing.endTime
    IN  findIndex({i \in 0..(Len(segs) - 1) : contains(i)})

closestSegmentFirstStarted(segs, currentTime) ==
    findIndex({i \in 0..(Len(segs) - 1) :
                 currentTime >= calculatePreciseTiming(segs[i + 1]).startTime})

closestSegmentFollowing(segs, currentTime) ==
    LET after(i) ==
          IF i > 0
            THEN currentTime >= calculatePreciseTiming(segs[i]).startTime
                 /\ currentTime < calculatePreciseTiming(segs[i + 1]).startTime
            ELSE FALSE
    IN  findIndex({i \in 0..(Len(segs) - 1) : after(i)})

\* The gap fallback of handleTimeUpdate (lines 142-153).
closestSegment(segs, currentTime) ==
    LET before(i) ==
          LET timing == calculatePreciseTiming(segs[i + 1])
          IN  IF i + 1 < Len(segs)
                THEN currentTime >= timing.startTime
                     /\ currentTime < calculatePreciseTiming(segs[i + 2]).startTime
                ELSE currentTime >= timing.startTime
    IN  findIndex({i \in 0..(Len(segs) - 1) : before(i)})

finalFallbackMissing(segs, currentTime) == 0 - 1

\* The final fallback of handleTimeUpdate (lines 156-164).
finalFallback(segs, currentTime) ==
    IF currentTime > calculatePreciseTiming(segs[Len(segs)]).endTime
      THEN Len(segs) - 1
      ELSE 0

\* The segment resolution of handleTimeUpdate (lines 132-165), for a
\* non-empty segs: primary rule, then gap fallback, then final fallback.
segmentToShow(segs, currentTime) ==
    LET active == activeSegment(segs, currentTime)
    IN  IF active # 0 - 1
          THEN active
          ELSE LET closest == closestSegment(segs, currentTime)
               IN  IF closest # 0 - 1
                     THEN closest
                     ELSE finalFallback(segs, currentTime)

(***************************************************************************)
(* The playback controller.                                                *)
(***************************************************************************)
Modes == {"normal", "listen", "repeat"}

\* useState(3), line 20.
maxRepeats == 3

\* Transcripts the host supplies as transcription.segments.
TwoSegments ==
    << [start |-> 1, end |-> 2, words |-> <<[start |-> <<1>>, end |-> <<1>>]>>],
       [start |-> 4, end |-> 8,
        words |-> <<[start |-> <<6>>, end |-> <<7>>]>>] >>

\* Scenario A of the specification: 0 s .. 2 s and 2 s .. 5 s, no word data.
ScenarioA ==
    << [start |-> 0, end |-> 40, words |-> <<>>],
       [start |-> 40, end |-> 100, words |-> <<>>] >>

\* Three segments without word data whose windows are [0, 8], [7, 18] and
\* [17, 28] twentieths of a second.
ThreeSegments ==
    << [start |-> 0, end |-> 2, words |-> <<>>],
       [start |-> 10, end |-> 12, words |-> <<>>],
       [start |-> 20, end |-> 22, words |-> <<>>] >>

Transcripts == {TwoSegments}

\* A transcript with a segment that ends before it starts and a segment
\* that starts at a negative time.
MalformedTranscript ==
    << [start |-> 4, end |-> 2, words |-> <<>>],
       [start |-> 0 - 1, end |-> 3, words |-> <<>>] >>

\* The transcripts of a reload: none, the first segment alone, both.
Reloads == {<<>>, SubSeq(TwoSegments, 1, 1), TwoSegments}

\* The parse of transcription.segments (lines 33-40): no segment is rejected.
parsedSegments(raw) ==
    [i \in 1..Len(raw) |->
        [start |-> raw[i].start, end |-> raw[i].end, words |-> raw[i].words]]

\* What the handlers created by the current render read: React state is
\* captured by value when the handler is created.
Closure ==
    [segments |-> segments, currentSegment |-> currentSegment,
     playbackMode |-> playbackMode, repeatCount |-> repeatCount]

\* The player and the watch as a handler finds them, with the commands the
\* handler has issued so far.
Commands ==
    [time |-> ptime, paused |-> paused, watch |-> segmentTimeout,
     seeks |-> <<>>, plays |-> 0, pauses |-> 0, armed |-> 0]

Clamp(t) == IF t < 0 THEN 0 ELSE IF t > duration THEN duration ELSE t

\* player.currentTime(t)
seek(m, t) == [m EXCEPT !.time = Clamp(t), !.seeks = Append(@, t)]

\* player.play(): playback that has ended starts again from the beginning.
play(m) ==
    [m EXCEPT !.paused = FALSE, !.plays = @ + 1,
              !.time = IF m.time = duration THEN 0 ELSE m.time]

\* player.pause()
pause(m) == [m EXCEPT !.paused = TRUE, !.pauses = @ + 1]

\* segments[i] is defined.
HasSegment(segs, i) == i >= 0 /\ i < Len(segs)

\* The window playSegment plays (lines 348-354).
playbackTiming(mode, segment) ==
    IF mode = "repeat"
      THEN calculatePreciseTiming(segment)
      ELSE [startTime |-> segment.start, endTime |-> segment.end,
            duration |-> segment.end - segment.start]

\* clearTimeout(segmentTimeoutRef.current): the ref holds the checkEndTime
\* timer armed last.
clearWatch(watch) ==
    IF watch = <<>> THEN watch ELSE SubSeq(watch, 1, Len(watch) - 1)

playSegmentNoClear(m, c, segmentIndex) ==
    IF ~playerRef \/ Len(c.segments) = 0 \/ ~HasSegment(c.segments, segmentIndex)
      THEN m
      ELSE LET timing == playbackTiming(c.playbackMode, c.segments[segmentIndex + 1])
           IN  [play(seek(m, timing.startTime)) EXCEPT
                  !.watch = Append(m.watch,
                                   [index |-> segmentIndex, endTime |-> timing.endTime]),
                  !.armed = @ + 1]

\* playSegment (lines 336-383) in the closure c: clear the pending watch
\* (lines 343-345), seek, play, arm the watch.
playSegment(m, c, segmentIndex) ==
    IF ~playerRef \/ Len(c.segments) = 0 \/ ~HasSegment(c.segments, segmentIndex)
      THEN m
      ELSE LET timing == playbackTiming(c.playbackMode, c.segments[segmentIndex + 1])
           IN  [play(seek(m, timing.startTime)) EXCEPT
                  !.watch = Append(clearWatch(m.watch),
                                   [index |-> segmentIndex, endTime |-> timing.endTime]),
                  !.armed = @ + 1]

\* navigateToSegmentStart (lines 391-407).
navigateToSegmentStart(m, c, segmentIndex) ==
    IF ~playerRef \/ Len(c.segments) = 0 \/ ~HasSegment(c.segments, segmentIndex)
      THEN m
      ELSE seek(m, calculatePreciseTiming(c.segments[segmentIndex + 1]).startTime)

\* What a handler leaves behind: the new currentSegment and repeatCount
\* (<<>> when it sets none), the player and watch, the host callbacks fired.
NoEffect == [cur |-> <<>>, rep |-> <<>>, m |-> Commands, changes |-> <<>>]

goToSegmentOffByOne(c, segmentIndex) ==
    IF segmentIndex < 0 \/ segmentIndex > Len(c.segments)
      THEN NoEffect
      ELSE [cur |-> <<segmentIndex>>, rep |-> <<0>>, m |-> Commands,
            changes |-> <<segmentIndex>>]

\* goToSegment (lines 410-438) in the closure c.
goToSegment(c, segmentIndex) ==
    IF segmentIndex < 0 \/ segmentIndex >= Len(c.segments)
      THEN NoEffect
      ELSE LET m1 == IF playerRef
                       THEN navigateToSegmentStart(Commands, c, segmentIndex)
                       ELSE Commands
               m2 == IF playerRef /\ c.playbackMode # "normal"
                       THEN playSegment(m1, c, segmentIndex)
                       ELSE m1
           IN  [cur |-> <<segmentIndex>>, rep |-> <<0>>, m |-> m2,
                changes |-> <<segmentIndex>>]

\* handleTimeUpdate (lines 126-178) in the closure c, after the effect e of
\* the listeners that ran before it in the same event.
handleTimeUpdate(e, c) ==
    IF ~playerRef \/ Len(c.segments) = 0
      THEN e
      ELSE LET show == segmentToShow(c.segments, e.m.time)
           IN  IF show # 0 - 1 /\ show # c.currentSegment
                 THEN [e EXCEPT !.cur = <<show>>, !.changes = Append(@, show)]
                 ELSE e

\* The raw rule of initializeSubtitleDisplay (lines 185-190).
initialSegment(segs, currentTime) ==
    LET inside(i) == currentTime >= segs[i + 1].start /\ currentTime <= segs[i + 1].end
        active == findIndex({i \in 0..(Len(segs) - 1) : inside(i)})
    IN  IF active # 0 - 1 THEN active ELSE 0

\* initializeSubtitleDisplay (lines 181-203) in the closure c.
initializeSubtitleDisplay(c) ==
    IF ~playerRef \/ Len(c.segments) = 0
      THEN NoEffect
      ELSE LET show == initialSegment(c.segments, ptime)
           IN  IF show # c.currentSegment
                 THEN [NoEffect EXCEPT !.cur = <<show>>, !.changes = <<show>>]
                 ELSE NoEffect

\* One player event delivered to every registered handleTimeUpdate, in the
\* order of registration.
RECURSIVE deliverTimeUpdate(_, _)
deliverTimeUpdate(e, ls) ==
    IF ls = <<>> THEN e
    ELSE deliverTimeUpdate(handleTimeUpdate(e, Head(ls)), Tail(ls))

\* The closures among ls whose handleVideoEnd arms the 1 s replay (line 322).
replayArmed(ls) ==
    SelectSeq(ls, LAMBDA c : c.playbackMode = "repeat" /\ c.repeatCount < maxRepeats)

\* The closures among ls whose handleVideoEnd arms the 1.5 s advance (line 327).
advanceArmed(ls) ==
    SelectSeq(ls, LAMBDA c : ~(c.playbackMode = "repeat" /\ c.repeatCount < maxRepeats)
                             /\ c.playbackMode = "listen"
                             /\ c.currentSegment < Len(c.segments) - 1)

\* The pending timers q after the timers ts are armed. At most n pending
\* timers are tracked: beyond that the oldest ones are dropped.
Enqueue(q, ts, n) ==
    LET all == q \o ts
    IN  IF Len(all) <= n THEN all ELSE SubSeq(all, Len(all) - n + 1, Len(all))

\* The effect of lines 205-233 after a render: it runs again whenever
\* segments or currentSegment changed (initializeSubtitleDisplay and
\* handleTimeUpdate are re-created then), and with a player attached it arms
\* the 100 ms initializeSubtitleDisplay of the new render.
subtitleEffect(q, forced, segs, cur, attached) ==
    IF (forced \/ segs # segments \/ cur # currentSegment) /\ Len(segs) > 0 /\ attached
      THEN Enqueue(q, <<[segments |-> segs, currentSegment |-> cur]>>, MaxInitTimers)
      ELSE q

\* The record of a step: the operation and its argument, the state it
\* started from (with the number of watches pending then), the seeks, plays
\* and pauses it commanded, the watches it armed, and the indices it
\* notified to the host (onProgress and
\* onSegmentChange are always called together: lines 171-176, 194-199 and
\* 420-425).
Log(op, arg, e) ==
    [op |-> op, arg |-> arg, cur |-> currentSegment, rep |-> repeatCount,
     mode |-> playbackMode, watching |-> Len(segmentTimeout),
     seeks |-> e.m.seeks, plays |-> e.m.plays,
     pauses |-> e.m.pauses, armed |-> e.m.armed, changes |-> e.changes]

\* The record left by a step that is not under observation.
NoLog ==
    [op |-> "none", arg |-> 0, cur |-> 0, rep |-> 0, mode |-> "normal",
     watching |-> 0,
     seeks |-> <<>>, plays |-> 0, pauses |-> 0, armed |-> 0, changes |-> <<>>]

Observe(op, arg, e) == IF op \in observed THEN Log(op, arg, e) ELSE NoLog

\* The state after a handler with effect e: React applies the state updates
\* (those of an unmounted component are dropped), the player has taken the
\* commands, the effects of the render have run. q is the queue of
\* initializeSubtitleDisplay timers the handler leaves.
Commit(op, arg, e, q) ==
    /\ currentSegment' = IF e.cur = <<>> \/ ~mounted THEN currentSegment ELSE e.cur[1]
    /\ repeatCount' = IF e.rep = <<>> \/ ~mounted THEN repeatCount ELSE e.rep[1]
    /\ ptime' = e.m.time
    /\ paused' = e.m.paused
    /\ segmentTimeout' = e.m.watch
    /\ last' = Observe(op, arg, e)
    /\ initTimers' = subtitleEffect(q, FALSE, segments', currentSegment', playerRef')
    /\ UNCHANGED <<duration, playbackSpeed, playerRate, editedSegments,
                   segmentChangeTimeout, observed, pureVars>>

\* The same for a handler that leaves the component mounted and does not
\* touch the handle or its timers.
Apply(op, arg, e, q) ==
    /\ Commit(op, arg, e, q)
    /\ UNCHANGED <<mounted, handle, playTimers>>

PureIdle ==
    /\ timingIn = [start |-> 0, end |-> 0, words |-> <<>>]
    /\ timingOut = <<>>
    /\ resolveIn = [segs |-> <<[start |-> 0, end |-> 0, words |-> <<>>]>>, time |-> 0]
    /\ resolveOut = <<>>

\* The state after the component is constructed (lines 15-28), with a media
\* of the given length and the given operations under observation, for a
\* host that passes onPlayerReady or not.
Mounted(len, ops, onPlayerReady) ==
    /\ segments = <<>>
    /\ currentSegment = 0
    /\ playbackMode = "normal"
    /\ repeatCount = 0
    /\ playerRef = FALSE
    /\ segmentTimeout = <<>>
    /\ ptime = 0
    /\ paused = TRUE
    /\ duration = len
    /\ listeners = <<>>
    /\ initTimers = <<>>
    /\ replayTimers = <<>>
    /\ advanceTimers = <<>>
    /\ mounted = TRUE
    /\ handle = IF onPlayerReady THEN <<"normal">> ELSE <<>>
    /\ playTimers = <<>>
    /\ playbackSpeed = 100
    /\ playerRate = 100
    /\ editedSegments = <<>>
    /\ segmentChangeTimeout = <<>>
    /\ observed = ops
    /\ last = NoLog

Constructed(len, ops) == Mounted(len, ops, FALSE)

Init == Constructed(MediaDuration, {}) /\ PureIdle

loadedSegmentKept(raw, cur) == cur

\* The index the parse effect leaves (lines 45-50): 0 for a non-empty
\* transcript.
loadedSegment(raw, cur) == IF Len(raw) > 0 THEN 0 ELSE cur

\* The transcription prop changes (lines 31-52 and the effect of 205-233);
\* the effect of lines 470-494 passes a new handle to the host.
LoadTranscript(raw) ==
    /\ segments' = parsedSegments(raw)
    /\ currentSegment' = loadedSegment(raw, currentSegment)
    /\ initTimers' = subtitleEffect(initTimers, TRUE, segments', currentSegment', playerRef)
    /\ handle' = IF handle = <<>> THEN handle ELSE <<playbackMode>>
    /\ last' = Observe("loadTranscript", raw, NoEffect)
    /\ UNCHANGED <<playbackMode, repeatCount, playerRef, segmentTimeout, ptime, paused,
                   duration, listeners, replayTimers, advanceTimers, mounted, playTimers,
                   playbackSpeed, playerRate, editedSegments, segmentChangeTimeout,
                   observed, pureVars>>

\* The selectedSegmentIndex prop changes to i (lines 55-60).
SelectSegment(i) ==
    /\ i # currentSegment
    /\ UNCHANGED <<segments, playbackMode, playerRef, listeners, replayTimers,
                   advanceTimers>>
    /\ Apply("selectSegment", i, [NoEffect EXCEPT !.cur = <<i>>], initTimers)

\* handlePlayerReady (lines 289-312): the handlers of the current render are
\* registered on the player; nothing registered earlier is removed. At most
\* n sets of handlers are tracked.
Attach(n) ==
    /\ Len(listeners) < n
    /\ playerRef' = TRUE
    /\ listeners' = Append(listeners, Closure)
    /\ UNCHANGED <<segments, playbackMode, replayTimers, advanceTimers>>
    /\ Apply("handlePlayerReady", 0, NoEffect,
             Enqueue(initTimers,
                     <<[segments |-> segments, currentSegment |-> currentSegment]>>,
                     MaxInitTimers))

\* At most MaxListeners sets of handlers are tracked.
HandlePlayerReady == Attach(MaxListeners)

\* A timeupdate, seeking, seeked, loadedmetadata, canplay, play or pause
\* event of the player: every registered handleTimeUpdate runs.
PlayerEvent ==
    /\ listeners # <<>>
    /\ UNCHANGED <<segments, playbackMode, playerRef, listeners, replayTimers,
                   advanceTimers>>
    /\ Apply("timeupdate", 0, deliverTimeUpdate(NoEffect, listeners), initTimers)

PollNotRearmed ==
    /\ Len(segments) > 0
    /\ playerRef
    /\ UNCHANGED <<segments, playbackMode, playerRef, listeners, replayTimers,
                   advanceTimers>>
    /\ Apply("poll", 0,
             handleTimeUpdate(NoEffect, [Closure EXCEPT !.currentSegment = 0]),
             initTimers)

\* The 500 ms interval of lines 221-225, re-armed by every render that
\* changes segments or currentSegment, so its handleTimeUpdate is current.
Poll ==
    /\ Len(segments) > 0
    /\ playerRef
    /\ UNCHANGED <<segments, playbackMode, playerRef, listeners, replayTimers,
                   advanceTimers>>
    /\ Apply("poll", 0, handleTimeUpdate(NoEffect, Closure), initTimers)

\* The 100 ms timer of lines 211-213 and 309-311 fires.
InitTimerFire ==
    /\ initTimers # <<>>
    /\ UNCHANGED <<segments, playbackMode, playerRef, listeners, replayTimers,
                   advanceTimers>>
    /\ Apply("initializeSubtitleDisplay", 0, initializeSubtitleDisplay(Head(initTimers)),
             Tail(initTimers))

\* goToSegment(i) from the navigation buttons, the arrow keys or the handle.
GoToSegment(i) ==
    /\ UNCHANGED <<segments, playbackMode, playerRef, listeners, replayTimers,
                   advanceTimers>>
    /\ Apply("goToSegment", i, goToSegment(Closure, i), initTimers)

\* playCurrentSegment (lines 386-388) from the Play Segment button.
PlayCurrentSegment ==
    /\ UNCHANGED <<segments, playbackMode, playerRef, listeners, replayTimers,
                   advanceTimers>>
    /\ Apply("playCurrentSegment", 0,
             [NoEffect EXCEPT !.m = playSegment(Commands, Closure, currentSegment)],
             initTimers)

setModeKeepCount(mode) ==
    [NoEffect EXCEPT
       !.m = IF mode = "listen" \/ mode = "repeat"
               THEN playSegment(Commands, Closure, currentSegment)
               ELSE Commands]

\* The handler part of setMode (lines 441-448): setRepeatCount(0), and
\* playCurrentSegment of the render that created this setMode, which still
\* reads the mode being left.
setMode(mode) ==
    [NoEffect EXCEPT
       !.rep = <<0>>,
       !.m = IF mode = "listen" \/ mode = "repeat"
               THEN playSegment(Commands, Closure, currentSegment)
               ELSE Commands]

\* A mode button is clicked.
SetMode(mode) ==
    /\ playbackMode' = mode
    /\ UNCHANGED <<segments, playerRef, listeners, replayTimers, advanceTimers>>
    /\ Apply("setMode", mode, setMode(mode), initTimers)

EndedResetMode ==
    /\ ~paused
    /\ ptime = duration
    /\ replayTimers' = Enqueue(replayTimers, replayArmed(listeners), MaxEndTimers)
    /\ advanceTimers' = Enqueue(advanceTimers, advanceArmed(listeners), MaxEndTimers)
    /\ playbackMode' = IF replayArmed(listeners) = <<>> /\ advanceArmed(listeners) = <<>>
                         THEN "normal"
                         ELSE playbackMode
    /\ UNCHANGED <<segments, playerRef, listeners>>
    /\ Apply("ended", 0, [NoEffect EXCEPT !.m.paused = TRUE], initTimers)

\* Playback reaches the end of the media: the player stops and every
\* registered handleVideoEnd (lines 320-333) runs in its closure.
Ended ==
    /\ ~paused
    /\ ptime = duration
    /\ replayTimers' = Enqueue(replayTimers, replayArmed(listeners), MaxEndTimers)
    /\ advanceTimers' = Enqueue(advanceTimers, advanceArmed(listeners), MaxEndTimers)
    /\ UNCHANGED <<segments, playbackMode, playerRef, listeners>>
    /\ Apply("ended", 0, [NoEffect EXCEPT !.m.paused = TRUE], initTimers)

\* The 1 s timer of lines 323-326 fires: playCurrentSegment of the closure
\* that armed it, and setRepeatCount(prev => prev + 1).
ReplayTimerFire ==
    /\ replayTimers # <<>>
    /\ repeatCount < RepeatCountCap
    /\ replayTimers' = Tail(replayTimers)
    /\ UNCHANGED <<segments, playbackMode, playerRef, listeners, advanceTimers>>
    /\ Apply("replay", 0,
             [NoEffect EXCEPT
                !.m = playSegment(Commands, Head(replayTimers),
                                  Head(replayTimers).currentSegment),
                !.rep = <<repeatCount + 1>>],
             initTimers)

\* The 1.5 s timer of lines 329-331 fires: goToSegment of the closure that
\* armed it.
AdvanceTimerFire ==
    /\ advanceTimers # <<>>
    /\ advanceTimers' = Tail(advanceTimers)
    /\ UNCHANGED <<segments, playbackMode, playerRef, listeners, replayTimers>>
    /\ Apply("advance", Head(advanceTimers).currentSegment + 1,
             goToSegment(Head(advanceTimers), Head(advanceTimers).currentSegment + 1),
             initTimers)

\* A pending checkEndTime (lines 363-379) finds the end of its window
\* reached: it pauses the player and does not arm itself again. (Before the
\* end it only arms itself again, and the ref holds the new timer.)
CheckEndTime ==
    \E k \in 1..Len(segmentTimeout) :
        /\ playerRef
        /\ ptime >= segmentTimeout[k].endTime
        /\ UNCHANGED <<segments, playbackMode, playerRef, listeners, replayTimers,
                       advanceTimers>>
        /\ Apply("checkEndTime", segmentTimeout[k].index,
                 [NoEffect EXCEPT
                    !.m = [pause(Commands) EXCEPT
                             !.watch = SubSeq(segmentTimeout, 1, k - 1)
                                         \o SubSeq(segmentTimeout, k + 1,
                                                   Len(segmentTimeout))]],
                 initTimers)

\* The user starts or stops playback with the player's own controls.
UserPlay ==
    /\ paused
    /\ UNCHANGED <<segments, playbackMode, playerRef, listeners, replayTimers,
                   advanceTimers>>
    /\ Apply("player", 0,
             [NoEffect EXCEPT !.m.paused = FALSE,
                              !.m.time = IF ptime = duration THEN 0 ELSE ptime],
             initTimers)

UserPause ==
    /\ ~paused
    /\ UNCHANGED <<segments, playbackMode, playerRef, listeners, replayTimers,
                   advanceTimers>>
    /\ Apply("player", 0, [NoEffect EXCEPT !.m.paused = TRUE], initTimers)

\* The user seeks with the player's progress bar.
UserSeek(t) ==
    /\ t # ptime
    /\ UNCHANGED <<segments, playbackMode, playerRef, listeners, replayTimers,
                   advanceTimers>>
    /\ Apply("player", 0, [NoEffect EXCEPT !.m.time = t], initTimers)

\* Playback advances the player's clock.
Tick(t) ==
    /\ ~paused
    /\ t > ptime
    /\ t <= duration
    /\ UNCHANGED <<segments, playbackMode, playerRef, listeners, replayTimers,
                   advanceTimers>>
    /\ Apply("player", 0, [NoEffect EXCEPT !.m.time = t], initTimers)

Next ==
    \/ \E raw \in Transcripts : LoadTranscript(raw)
    \/ \E i \in (0 - 1)..(Len(segments) - 1) : SelectSegment(i)
    \/ HandlePlayerReady
    \/ PlayerEvent
    \/ Poll
    \/ InitTimerFire
    \/ \E i \in (0 - 1)..Len(segments) : GoToSegment(i)
    \/ PlayCurrentSegment
    \/ \E mode \in Modes : SetMode(mode)
    \/ Ended
    \/ ReplayTimerFire
    \/ AdvanceTimerFire
    \/ CheckEndTime
    \/ UserPlay
    \/ UserPause
    \/ \E t \in {0, MediaDuration} : UserSeek(t)
    \/ \E t \in 0..MediaDuration : Tick(t)

Spec == Init /\ [][Next]_vars

(***************************************************************************)
(* The host: the handle it receives through onPlayerReady, and the         *)
(* unmounting of the component.                                            *)
(***************************************************************************)
\* playSegmentByIndex(i) of the handle (lines 473-481): the range test reads
\* the segments of the render that created the handle, which are the
\* current ones (the handle is re-created whenever segments change).
PlaySegmentByIndex(i) ==
    /\ handle # <<>>
    /\ playTimers' =
         IF HasSegment(segments, i)
           THEN Enqueue(playTimers,
                        <<[index |-> i, segments |-> segments, playbackMode |-> handle[1]]>>,
                        MaxPlayTimers)
           ELSE playTimers
    /\ UNCHANGED <<segments, playbackMode, playerRef, listeners, replayTimers,
                   advanceTimers, mounted, handle>>
    /\ Commit("playSegmentByIndex", i,
              IF HasSegment(segments, i) THEN [NoEffect EXCEPT !.cur = <<i>>] ELSE NoEffect,
              initTimers)

\* The 100 ms timer of lines 476-480 fires: navigateToSegmentStart and
\* playSegment of the render that created the handle.
PlayTimerFire ==
    /\ playTimers # <<>>
    /\ playTimers' = Tail(playTimers)
    /\ UNCHANGED <<segments, playbackMode, playerRef, listeners, replayTimers,
                   advanceTimers, mounted, handle>>
    /\ Commit("deferredPlay", Head(playTimers).index,
              [NoEffect EXCEPT
                 !.m = playSegment(navigateToSegmentStart(Commands, Head(playTimers),
                                                          Head(playTimers).index),
                                   Head(playTimers), Head(playTimers).index)],
              initTimers)

\* The component is unmounted: the cleanups of lines 227-231 and 277-285
\* clear the 500 ms interval and the timer segmentTimeoutRef holds; the
\* VideoPlayer child disposes of the player (VideoPlayer.jsx lines 142-153),
\* which stops playback and drops the handlers registered on it.
Unmount ==
    /\ mounted' = FALSE
    /\ listeners' = <<>>
    /\ UNCHANGED <<segments, playbackMode, playerRef, replayTimers, advanceTimers,
                   handle, playTimers>>
    /\ Commit("unmount", 0,
              [NoEffect EXCEPT !.m.watch = clearWatch(segmentTimeout),
                               !.m.paused = TRUE],
              initTimers)

\* The steps of a mounted component whose host uses the handle.
NextHost ==
    \/ Next
    \/ \E i \in (0 - 1)..Len(segments) : PlaySegmentByIndex(i)
    \/ PlayTimerFire

(***************************************************************************)
(* SpecDetach: the component is used and then unmounted; the timers that   *)
(* are still pending fire afterwards.                                      *)
(***************************************************************************)
InitDetach ==
    /\ Mounted(MediaDuration,
               {"unmount", "initializeSubtitleDisplay", "replay", "advance",
                "deferredPlay"}, TRUE)
    /\ PureIdle

\* While mounted: the transcript is loaded, the player becomes ready, the
\* user picks a mode, plays the current segment or seeks, the host plays a
\* segment through the handle, the media ends. Timers fire whether the
\* component is mounted or not, unless the teardown cleared them.
NextDetach ==
    \/ mounted /\ \E raw \in Transcripts : segments = <<>> /\ LoadTranscript(raw)
    \/ mounted /\ HandlePlayerReady
    \/ mounted /\ \E mode \in Modes : SetMode(mode)
    \/ mounted /\ PlayCurrentSegment
    \/ mounted /\ \E t \in {0, MediaDuration} : UserSeek(t)
    \/ mounted /\ \E i \in (0 - 1)..Len(segments) : PlaySegmentByIndex(i)
    \/ mounted /\ Ended
    \/ Unmount
    \/ CheckEndTime
    \/ InitTimerFire
    \/ ReplayTimerFire
    \/ AdvanceTimerFire
    \/ PlayTimerFire

SpecDetach == InitDetach /\ [][NextDetach]_vars

(***************************************************************************)
(* SpecSpeed: the playback speed is changed, before and after the player   *)
(* is attached, in any mode.                                               *)
(***************************************************************************)
\* The rates of the speed selector (lines 721-725), in hundredths.
AllowedRates == {50, 75, 100, 125, 150}

\* The rates changeSpeed is called with: the allowed ones, a quarter of the
\* normal speed, and the double speed the player itself offers
\* (VideoPlayer.jsx line 40).
SpeedInputs == AllowedRates \cup {25, 200}

\* changeSpeed (lines 462-467).
ChangeSpeed(speed) ==
    /\ playbackSpeed' = speed
    /\ playerRate' = IF playerRef THEN speed ELSE playerRate
    /\ last' = Observe("changeSpeed", speed, NoEffect)
    /\ UNCHANGED <<segments, currentSegment, playbackMode, repeatCount, playerRef,
                   segmentTimeout, ptime, paused, duration, listeners, initTimers,
                   replayTimers, advanceTimers, mounted, handle, playTimers,
                   editedSegments, segmentChangeTimeout, observed, pureVars>>

InitSpeed == Constructed(MediaDuration, {"changeSpeed"}) /\ PureIdle

NextSpeed ==
    \/ \E speed \in SpeedInputs : ChangeSpeed(speed)
    \/ HandlePlayerReady
    \/ \E mode \in Modes : SetMode(mode)

SpecSpeed == InitSpeed /\ [][NextSpeed]_vars

(***************************************************************************)
(* SpecLoad: the transcript is reloaded, with fewer segments or none too,  *)
(* while a player is attached, the user navigates, picks a mode and seeks, *)
(* and the time tracking runs. The loads are under observation.            *)
(***************************************************************************)
InitLoad == Constructed(MediaDuration, {"loadTranscript"}) /\ PureIdle

NextLoad ==
    \/ \E raw \in Reloads : LoadTranscript(raw)
    \/ HandlePlayerReady
    \/ PlayerEvent
    \/ Poll
    \/ InitTimerFire
    \/ \E i \in (0 - 1)..Len(segments) : GoToSegment(i)
    \/ \E mode \in Modes : SetMode(mode)
    \/ CheckEndTime
    \/ \E t \in {0, MediaDuration} : UserSeek(t)

SpecLoad == InitLoad /\ [][NextLoad]_vars

(***************************************************************************)
(* SpecGuard: SpecLoad with the Play Segment button, and with the player   *)
(* events, the poll, playCurrentSegment and goToSegment under observation. *)
(***************************************************************************)
InitGuard ==
    /\ Constructed(MediaDuration,
                   {"timeupdate", "poll", "playCurrentSegment", "goToSegment"})
    /\ PureIdle

NextGuard ==
    \/ NextLoad
    \/ PlayCurrentSegment

SpecGuard == InitGuard /\ [][NextGuard]_vars

(***************************************************************************)
(* SpecNotify: the current segment changes by clock tracking, by           *)
(* navigation, through the handle and by the initial resolution; all of    *)
(* these are under observation.                                            *)
(***************************************************************************)
InitNotify ==
    /\ Mounted(MediaDuration,
               {"timeupdate", "poll", "initializeSubtitleDisplay", "goToSegment",
                "playSegmentByIndex"}, TRUE)
    /\ PureIdle

NextNotify ==
    \/ \E raw \in Transcripts : segments = <<>> /\ LoadTranscript(raw)
    \/ HandlePlayerReady
    \/ PlayerEvent
    \/ Poll
    \/ InitTimerFire
    \/ \E i \in (0 - 1)..Len(segments) : GoToSegment(i)
    \/ \E i \in (0 - 1)..Len(segments) : PlaySegmentByIndex(i)
    \/ PlayTimerFire
    \/ \E t \in {0, MediaDuration} : UserSeek(t)

SpecNotify == InitNotify /\ [][NextNotify]_vars

(***************************************************************************)
(* SpecComplete: segments are played in every mode while the clock         *)
(* advances; the checkEndTime that finds the end reached is under          *)
(* observation.                                                            *)
(***************************************************************************)
InitComplete == Constructed(MediaDuration, {"checkEndTime"}) /\ PureIdle

NextComplete ==
    \/ \E raw \in Transcripts : segments = <<>> /\ LoadTranscript(raw)
    \/ HandlePlayerReady
    \/ PlayerEvent
    \/ \E i \in (0 - 1)..Len(segments) : GoToSegment(i)
    \/ PlayCurrentSegment
    \/ \E mode \in Modes : SetMode(mode)
    \/ CheckEndTime
    \/ UserPause
    \/ \E t \in {0, MediaDuration} : UserSeek(t)
    \/ \E t \in 0..MediaDuration : Tick(t)

SpecComplete == InitComplete /\ [][NextComplete]_vars

(***************************************************************************)
(* SpecReset: segments are replayed at the end of the media in Repeat      *)
(* mode, so that repeatCount grows, while the user changes the mode and    *)
(* navigates and the host plays segments through the handle.               *)
(***************************************************************************)
InitReset ==
    /\ Mounted(MediaDuration, {"setMode", "goToSegment", "playSegmentByIndex"}, TRUE)
    /\ PureIdle

NextReset ==
    \/ \E raw \in Transcripts : segments = <<>> /\ LoadTranscript(raw)
    \/ HandlePlayerReady
    \/ \E i \in (0 - 1)..Len(segments) : GoToSegment(i)
    \/ \E mode \in Modes : SetMode(mode)
    \/ \E i \in (0 - 1)..Len(segments) : PlaySegmentByIndex(i)
    \/ PlayTimerFire
    \/ Ended
    \/ ReplayTimerFire
    \/ UserSeek(MediaDuration)

SpecReset == InitReset /\ [][NextReset]_vars

(***************************************************************************)
(* SpecFrame: the controller with a host that uses the handle and reloads  *)
(* the transcript; the mode buttons and the end of the media are under     *)
(* observation.                                                            *)
(***************************************************************************)
InitFrame == Mounted(MediaDuration, {"setMode", "ended"}, TRUE) /\ PureIdle

NextFrame ==
    \/ \E raw \in Transcripts : LoadTranscript(raw)
    \/ HandlePlayerReady
    \/ PlayerEvent
    \/ Poll
    \/ InitTimerFire
    \/ \E i \in (0 - 1)..Len(segments) : GoToSegment(i)
    \/ PlayCurrentSegment
    \/ \E mode \in Modes : SetMode(mode)
    \/ \E i \in (0 - 1)..Len(segments) : PlaySegmentByIndex(i)
    \/ PlayTimerFire
    \/ Ended
    \/ ReplayTimerFire
    \/ AdvanceTimerFire
    \/ CheckEndTime
    \/ \E t \in {0, MediaDuration} : UserSeek(t)

SpecFrame == InitFrame /\ [][NextFrame]_vars

(***************************************************************************)
(* SpecCancel: segments are played while the user pauses, resumes and      *)
(* seeks with the player's own controls; these and the checkEndTime that   *)
(* finds the end reached are under observation.                            *)
(***************************************************************************)
InitCancel == Constructed(MediaDuration, {"player", "checkEndTime"}) /\ PureIdle

NextCancel ==
    \/ \E raw \in Transcripts : segments = <<>> /\ LoadTranscript(raw)
    \/ HandlePlayerReady
    \/ \E i \in (0 - 1)..Len(segments) : GoToSegment(i)
    \/ PlayCurrentSegment
    \/ \E mode \in Modes : SetMode(mode)
    \/ CheckEndTime
    \/ UserPlay
    \/ UserPause
    \/ \E t \in {0, MediaDuration} : UserSeek(t)

SpecCancel == InitCancel /\ [][NextCancel]_vars

(***************************************************************************)
(* SpecPoll: the player delivers no event to the controller (no handler is *)
(* called for timeupdate, seeking or seeked); the clock moves by the       *)
(* user's seeks and the user navigates. The interval of lines 221-225 is a *)
(* setInterval that stays armed as long as a transcript is loaded, so its  *)
(* callback runs again and again: weak fairness of Poll.                   *)
(***************************************************************************)
InitPoll == Constructed(MediaDuration, {"poll"}) /\ PureIdle

NextPoll ==
    \/ \E raw \in Transcripts : segments = <<>> /\ LoadTranscript(raw)
    \/ HandlePlayerReady
    \/ Poll
    \/ InitTimerFire
    \/ \E i \in (0 - 1)..Len(segments) : GoToSegment(i)
    \/ \E t \in 0..MediaDuration : UserSeek(t)

SpecPoll == InitPoll /\ [][NextPoll]_vars /\ WF_vars(Poll)

(***************************************************************************)
(* SpecEdit: the transcript panel in edit mode. The user saves edits of    *)
(* single segments and cancels the editing.                                *)
(***************************************************************************)
\* The segments prop of the panel, with times in milliseconds.
PanelSegments ==
    << [text |-> "one", start |-> 5000, end |-> 10000],
       [text |-> "two", start |-> 10000, end |-> 12000] >>

\* The content of a time input: <<>> for a string that does not consist of
\* two parts separated by a colon, otherwise the numbers parseInt reads from
\* the minutes, the seconds and the part after the point.
EnteredTimes ==
    {<<>>} \cup [minutes : 0..MaxEditMinutes, seconds : {1, 7}, ms : {0, 500}]

EnteredTexts == {"one", "new"}

\* parseTimeFromInput (TranscriptPanel.jsx lines 136-146), in milliseconds.
parseTimeFromInput(timeString) ==
    IF timeString = <<>>
      THEN 0
      ELSE timeString.minutes * 60000 + timeString.seconds * 1000 + timeString.ms

\* The array updateSegment passes to setEditedSegments (lines 96-103): a
\* copy of the editedSegments of its render with one field replaced.
updateSegment(edited, index, field, value) ==
    [edited EXCEPT ![index + 1] = [@ EXCEPT ![field] = value]]

\* handleSaveEdit (lines 314-326): after the validation, three calls of the
\* updateSegment of the same render, each ending in setEditedSegments; the
\* state React commits is the argument of the last one.
handleSaveEdit(edited, index, localText, localStartTime, localEndTime) ==
    LET startSeconds == parseTimeFromInput(localStartTime)
        endSeconds == parseTimeFromInput(localEndTime)
        set1 == updateSegment(edited, index, "text", localText)
        set2 == updateSegment(edited, index, "start", startSeconds)
        set3 == updateSegment(edited, index, "end", endSeconds)
    IN  IF endSeconds <= startSeconds THEN edited ELSE set3

\* What an edit step leaves of the controller.
PanelFrame ==
    UNCHANGED <<segments, currentSegment, playbackMode, repeatCount, playerRef,
                segmentTimeout, ptime, paused, duration, listeners, initTimers,
                replayTimers, advanceTimers, mounted, handle, playTimers,
                playbackSpeed, playerRate, segmentChangeTimeout, observed, pureVars>>

\* The effect of lines 29-33, and the cancel branch of toggleEditMode
\* (lines 80-83): editedSegments becomes a copy of the segments prop.
ResetEditedSegments ==
    /\ editedSegments' = PanelSegments
    /\ last' = Observe("resetEditedSegments", 0, NoEffect)
    /\ PanelFrame

\* The Save button of the segment at index (line 383).
SaveEdit(index, localText, localStartTime, localEndTime) ==
    /\ index < Len(editedSegments)
    /\ editedSegments' =
         handleSaveEdit(editedSegments, index, localText, localStartTime, localEndTime)
    /\ last' = Observe("handleSaveEdit",
                       [index |-> index, text |-> localText,
                        start |-> localStartTime, end |-> localEndTime],
                       NoEffect)
    /\ PanelFrame

InitEdit == Constructed(MediaDuration, {"handleSaveEdit"}) /\ PureIdle

NextEdit ==
    \/ ResetEditedSegments
    \/ \E index \in 0..1, localText \in EnteredTexts,
          localStartTime \in EnteredTimes, localEndTime \in EnteredTimes :
          SaveEdit(index, localText, localStartTime, localEndTime)

SpecEdit == InitEdit /\ [][NextEdit]_vars

(***************************************************************************)
(* SpecDebounce: the copy of the component kept in ESLVideoPlayer.css      *)
(* (lines 1698-2400), whose handleTimeUpdate defers the commit of a        *)
(* resolved index by 100 ms. Its calculatePreciseTiming, its resolution    *)
(* and its goToSegment are the same text as in ESLVideoPlayer.jsx. The     *)
(* component the application imports is ESLVideoPlayer.jsx, which has no   *)
(* such timer.                                                             *)
(***************************************************************************)
\* handleTimeUpdate of the copy (ESLVideoPlayer.css lines 1834-1895), called
\* by the 500 ms interval of the current render: a resolved index other
\* than currentSegment replaces the pending commit (lines 1877-1893).
DebouncedTimeUpdate ==
    /\ Len(segments) > 0
    /\ playerRef
    /\ segmentChangeTimeout' =
         LET show == segmentToShow(segments, ptime)
         IN  IF show # 0 - 1 /\ show # currentSegment
               THEN <<[segmentToShow |-> show]>>
               ELSE segmentChangeTimeout
    /\ last' = Observe("debouncedTimeUpdate", 0, NoEffect)
    /\ UNCHANGED <<segments, currentSegment, playbackMode, repeatCount, playerRef,
                   segmentTimeout, ptime, paused, duration, listeners, initTimers,
                   replayTimers, advanceTimers, mounted, handle, playTimers,
                   playbackSpeed, playerRate, editedSegments, observed, pureVars>>

\* The 100 ms timer of lines 1884-1893 fires: the index resolved when it was
\* armed is committed and notified.
SegmentChangeTimerFire ==
    /\ segmentChangeTimeout # <<>>
    /\ currentSegment' = segmentChangeTimeout[1].segmentToShow
    /\ segmentChangeTimeout' = <<>>
    /\ initTimers' = subtitleEffect(initTimers, FALSE, segments, currentSegment', playerRef)
    /\ last' = Observe("segmentChangeCommit", segmentChangeTimeout[1].segmentToShow,
                       [NoEffect EXCEPT
                          !.cur = <<segmentChangeTimeout[1].segmentToShow>>,
                          !.changes = <<segmentChangeTimeout[1].segmentToShow>>])
    /\ UNCHANGED <<segments, playbackMode, repeatCount, playerRef, segmentTimeout,
                   ptime, paused, duration, listeners, replayTimers, advanceTimers,
                   mounted, handle, playTimers, playbackSpeed, playerRate,
                   editedSegments, observed, pureVars>>

InitDebounce ==
    /\ Constructed(MediaDuration, {"goToSegment", "segmentChangeCommit"})
    /\ PureIdle

NextDebounce ==
    \/ \E raw \in Transcripts : segments = <<>> /\ LoadTranscript(raw)
    \/ HandlePlayerReady
    \/ DebouncedTimeUpdate
    \/ SegmentChangeTimerFire
    \/ InitTimerFire
    \/ \E i \in (0 - 1)..Len(segments) : GoToSegment(i)
    \/ \E t \in 0..MediaDuration : UserSeek(t)

SpecDebounce == InitDebounce /\ [][NextDebounce]_vars

(***************************************************************************)
(* SpecMalformed: SpecLoad with a host that also supplies the malformed    *)
(* transcript.                                                             *)
(***************************************************************************)
InitMalformed == Constructed(MediaDuration, {"loadTranscript"}) /\ PureIdle

LoadMalformed == LoadTranscript(MalformedTranscript)

NextMalformed ==
    \/ NextLoad
    \/ LoadMalformed

SpecMalformed == InitMalformed /\ [][NextMalformed]_vars

(***************************************************************************)
(* SpecWatch: the controller of Spec with a host that uses the handle, the *)
(* deferred play of playSegmentByIndex under observation.                  *)
(***************************************************************************)
InitWatch == Mounted(MediaDuration, {"deferredPlay"}, TRUE) /\ PureIdle

\* The transcript is loaded once; afterwards the operations that start a
\* bounded playback, the player's events and every timer interleave.
NextWatch ==
    \/ \E raw \in Transcripts : segments = <<>> /\ LoadTranscript(raw)
    \/ HandlePlayerReady
    \/ PlayerEvent
    \/ InitTimerFire
    \/ \E i \in (0 - 1)..Len(segments) : GoToSegment(i)
    \/ PlayCurrentSegment
    \/ \E mode \in Modes : SetMode(mode)
    \/ \E i \in (0 - 1)..Len(segments) : PlaySegmentByIndex(i)
    \/ PlayTimerFire
    \/ Ended
    \/ ReplayTimerFire
    \/ AdvanceTimerFire
    \/ CheckEndTime
    \/ \E t \in {0, MediaDuration} : UserSeek(t)
    \/ \E t \in 0..MediaDuration : Tick(t)

SpecWatch == InitWatch /\ [][NextWatch]_vars

(***************************************************************************)
(* SpecNav and SpecMode: the controller of Spec with navigation, and with  *)
(* the mode buttons and the Play Segment button, under observation.        *)
(***************************************************************************)
InitNav == Constructed(MediaDuration, {"goToSegment"}) /\ PureIdle

SpecNav == InitNav /\ [][Next]_vars

InitMode == Constructed(MediaDuration, {"setMode", "playCurrentSegment"}) /\ PureIdle

SpecMode == InitMode /\ [][Next]_vars

(***************************************************************************)
(* SpecEnd: the controller of Spec with the end-of-media notification      *)
(* under observation.                                                      *)
(***************************************************************************)
InitEnd == Constructed(MediaDuration, {"ended"}) /\ PureIdle

SpecEnd == InitEnd /\ [][Next]_vars

(***************************************************************************)
(* SpecA: Scenario A. The transcript of the scenario is loaded once, a     *)
(* player is attached, the mode stays Normal and the clock advances while  *)
(* the player's events, the 500 ms poll and the 100 ms initialisation      *)
(* timers are handled.                                                     *)
(***************************************************************************)
InitA == Constructed(ScenarioDuration, {"poll", "timeupdate"}) /\ PureIdle

LoadScenarioA ==
    /\ segments = <<>>
    /\ LoadTranscript(ScenarioA)

NextA ==
    \/ LoadScenarioA
    \/ HandlePlayerReady
    \/ PlayerEvent
    \/ Poll
    \/ InitTimerFire
    \/ UserPlay
    \/ \E t \in 0..ScenarioDuration : Tick(t)

SpecA == InitA /\ [][NextA]_vars

(***************************************************************************)
(* SpecSeek: the user drags the progress bar over a transcript of three    *)
(* segments. Every position the drag passes sets the player's time and     *)
(* raises a seeking event, handled by every registered handleTimeUpdate    *)
(* (line 295); successive positions of a drag are a few milliseconds       *)
(* apart. handlePlayerReady may be invoked twice.                          *)
(***************************************************************************)
InitSeek == Constructed(SeekDuration, {"seeking"}) /\ PureIdle

LoadThreeSegments ==
    /\ segments = <<>>
    /\ LoadTranscript(ThreeSegments)

Seeking(t) ==
    /\ listeners # <<>>
    /\ t # ptime
    /\ UNCHANGED <<segments, playbackMode, playerRef, listeners, replayTimers,
                   advanceTimers>>
    /\ Apply("seeking", t,
             deliverTimeUpdate([NoEffect EXCEPT !.m.time = t], listeners), initTimers)

NextSeek ==
    \/ LoadThreeSegments
    \/ Attach(MaxAttach)
    \/ \E t \in 0..SeekDuration : Seeking(t)
    \/ Poll
    \/ InitTimerFire

SpecSeek == InitSeek /\ [][NextSeek]_vars

(***************************************************************************)
(* Inputs of the pure-function specifications.                             *)
(***************************************************************************)
OptTime(hi) == {<<>>} \cup {<<n>> : n \in 0..hi}

WordDomain == [start : OptTime(MaxWordStart), end : OptTime(MaxWordEnd)]

SeqsUpTo(S, n) == UNION {[1..k -> S] : k \in 0..n}

\* The segment of the specification's P4: 10 s .. 20 s, one word 10.5 s .. 15 s.
LargeGapExample == [start |-> 200, end |-> 400,
                    words |-> <<[start |-> <<210>>, end |-> <<300>>]>>]

TimingDomain ==
    [start : 0..MaxSegStart, end : 0..MaxSegEnd, words : SeqsUpTo(WordDomain, MaxWords)]
      \cup {LargeGapExample}

NoSegment == [start |-> 0, end |-> 0, words |-> <<>>]

\* Segment boundaries of the resolution inputs: multiples of START_BUFFER, so
\* that two segments can lie far enough apart for their windows to leave a gap.
ResolveGrid == {k * START_BUFFER : k \in 0..MaxResolveSteps}

ResolveSegDomain == [start : ResolveGrid, end : ResolveGrid, words : {<<>>}]

ResolveDomain ==
    [segs : UNION {[1..k -> ResolveSegDomain] : k \in 1..MaxResolveSegs},
     time : 0..MaxResolveTime]

(***************************************************************************)
(* SpecTiming: calculatePreciseTiming applied to one segment.              *)
(***************************************************************************)
InitTiming ==
    /\ Constructed(MediaDuration, {})
    /\ timingIn \in TimingDomain
    /\ timingOut = <<>>
    /\ resolveIn = [segs |-> <<NoSegment>>, time |-> 0]
    /\ resolveOut = <<>>

ComputeTiming ==
    /\ timingOut = <<>>
    /\ timingOut' = <<calculatePreciseTiming(timingIn)>>
    /\ UNCHANGED <<timingIn, resolveIn, resolveOut, ctrlVars>>

SpecTiming == InitTiming /\ [][ComputeTiming]_vars

(***************************************************************************)
(* SpecDuration: calculatePreciseTiming applied to a segment with          *)
(* 0 <= start < end whose words are all timed, each ending no earlier than *)
(* it starts, in any order and at any position relative to the segment.    *)
(***************************************************************************)
OrderedWordDomain ==
    {w \in [start : {<<n>> : n \in 0..MaxWordTime}, end : {<<n>> : n \in 0..MaxWordTime}] :
        w.start[1] <= w.end[1]}

DurationDomain ==
    {s \in [start : 0..MaxSegStart, end : 0..(MaxSegStart + 1),
            words : SeqsUpTo(OrderedWordDomain, MaxWords)] : s.start < s.end}

InitDuration ==
    /\ Constructed(MediaDuration, {})
    /\ timingIn \in DurationDomain
    /\ timingOut = <<>>
    /\ resolveIn = [segs |-> <<NoSegment>>, time |-> 0]
    /\ resolveOut = <<>>

SpecDuration == InitDuration /\ [][ComputeTiming]_vars

(***************************************************************************)
(* SpecResolve: the segment resolution applied to a segment sequence and   *)
(* a player time.                                                          *)
(***************************************************************************)
InitResolve ==
    /\ Constructed(MediaDuration, {})
    /\ timingIn = NoSegment
    /\ timingOut = <<>>
    /\ resolveIn \in ResolveDomain
    /\ resolveOut = <<>>

ComputeResolve ==
    /\ resolveOut = <<>>
    /\ resolveOut' = <<segmentToShow(resolveIn.segs, resolveIn.time)>>
    /\ UNCHANGED <<timingIn, timingOut, resolveIn, ctrlVars>>

SpecResolve == InitResolve /\ [][ComputeResolve]_vars

(***************************************************************************)
(* Claims about the pure functions.                                        *)
(***************************************************************************)
NoResult == 0 - 1

\* C1: for every non-empty segment sequence (sorted or not, with gaps or
\* overlaps) and every time >= 0, the resolution of handleTimeUpdate yields
\* an index in [0, segmentCount), never -1.
C1_TotalResolution ==
    resolveOut # <<>> =>
        /\ resolveOut[1] # NoResult
        /\ resolveOut[1] \in 0..(Len(resolveIn.segs) - 1)

\* C1 witness: a resolution that got through the primary rule and the gap
\* fallback without a match, for two segments that are not sorted by start.
C1_Witness ==
    /\ resolveOut # <<>>
    /\ Len(resolveIn.segs) = 2
    /\ resolveIn.segs[1].start > resolveIn.segs[2].start
    /\ activeSegment(resolveIn.segs, resolveIn.time) = NoResult
    /\ closestSegment(resolveIn.segs, resolveIn.time) = NoResult

FirstTimedStart(segment) ==
    LET k == MinOf({i \in 1..Len(segment.words) :
                     Len(segment.words[i].start) = 1 /\ Len(segment.words[i].end) = 1})
    IN  segment.words[k].start[1]

LastTimedEnd(segment) ==
    LET S == {i \in 1..Len(segment.words) :
                Len(segment.words[i].start) = 1 /\ Len(segment.words[i].end) = 1}
        k == CHOOSE i \in S : \A j \in S : j <= i
    IN  segment.words[k].end[1]

HasTimedWord(segment) ==
    \E i \in 1..Len(segment.words) :
        Len(segment.words[i].start) = 1 /\ Len(segment.words[i].end) = 1

\* C2 as claimed: for every segment, with or without word timings, the
\* window starts at or before segment.start and ends at or after
\* segment.end + 0.15.
C2_WindowMonotone ==
    timingOut # <<>> =>
        /\ timingOut[1].startTime <= timingIn.start
        /\ timingOut[1].endTime >= timingIn.end + 3

\* C2 as amended: for every segment with start >= 0 the window ends at or
\* after segment.end + 0.15; it starts at or before segment.start exactly
\* when the segment has no timed word or its first timed word starts at most
\* 0.15 after segment.start (otherwise it starts at firstWordStart - 0.15,
\* after segment.start).
C2_WindowMonotoneAmended ==
    timingOut # <<>> =>
        /\ timingOut[1].endTime >= timingIn.end + 3
        /\ (~HasTimedWord(timingIn) \/ FirstTimedStart(timingIn) <= timingIn.start + 3)
              => timingOut[1].startTime <= timingIn.start
        /\ (HasTimedWord(timingIn) /\ FirstTimedStart(timingIn) > timingIn.start + 3)
              => /\ timingOut[1].startTime = FirstTimedStart(timingIn) - 3
                 /\ timingOut[1].startTime > timingIn.start

\* C2 witness: a computed window of a segment whose first timed word starts
\* after segment.start, within 0.15 of it, and whose last word ends early.
C2_Witness ==
    /\ timingOut # <<>>
    /\ HasTimedWord(timingIn)
    /\ FirstTimedStart(timingIn) > timingIn.start
    /\ FirstTimedStart(timingIn) <= timingIn.start + 3
    /\ LastTimedEnd(timingIn) < timingIn.end
    /\ timingOut[1].startTime <= timingIn.start

C4_LargeGapFallback ==
    (timingOut # <<>> /\ HasTimedWord(timingIn)
       /\ timingIn.end - LastTimedEnd(timingIn) > 10) =>
        /\ timingOut[1].endTime = timingIn.end + 3
        /\ timingOut[1].endTime # LastTimedEnd(timingIn) + 6

\* C4 witness: the example 10 s .. 20 s with one word 10.5 s .. 15 s, whose
\* window ends at 20.15 s.
C4_Witness ==
    /\ timingIn = LargeGapExample
    /\ timingOut # <<>>
    /\ timingOut[1].endTime = 403

(***************************************************************************)
(* Claims about the controller.                                            *)
(***************************************************************************)
\* The index the resolution of handleTimeUpdate gives in Scenario A: segment
\* 0 as long as the time lies in its window [0, 2.30 s] (46 twentieths),
\* segment 1 afterwards.
ScenarioAIndex == IF ptime > 46 THEN 1 ELSE 0

\* The step was a time-progress step handled with the state of the current
\* render: the poll, or a player event, with a transcript loaded, whose only
\* listener was registered with the transcript and the index the step
\* started from.
TrackedByCurrentRender ==
    \/ last.op = "poll"
    \/ /\ last.op = "timeupdate"
       /\ Len(segments) > 0
       /\ Len(listeners) = 1
       /\ listeners[1].segments = segments
       /\ listeners[1].currentSegment = last.cur

C6_InvalidNavigationNoOp ==
    [][(last'.op = "goToSegment" /\ ~HasSegment(segments, last'.arg)) =>
          /\ UNCHANGED <<segments, currentSegment, repeatCount, playbackMode,
                         segmentTimeout, initTimers, replayTimers, advanceTimers,
                         ptime, paused, playerRef, listeners>>
          /\ last'.changes = <<>>
          /\ last'.seeks = <<>>
          /\ last'.plays = 0
          /\ last'.pauses = 0
          /\ last'.armed = 0]_vars

\* C6 witness: goToSegment(segmentCount) has been called with a transcript
\* loaded and a player attached, in a mode where a valid call plays.
C6_Witness ==
    /\ last.op = "goToSegment"
    /\ Len(segments) > 0
    /\ last.arg = Len(segments)
    /\ playerRef
    /\ playbackMode # "normal"

\* C7: after goToSegment(i) with a valid i and an attached player,
\* currentSegment = i, repeatCount = 0, the last seek issued targets the
\* buffered window start calculatePreciseTiming(segments[i]).startTime in
\* every mode, and bounded playback is started iff the mode is not Normal.
C7_NavigationSeeksBuffered ==
    (last.op = "goToSegment" /\ HasSegment(segments, last.arg) /\ playerRef) =>
        /\ currentSegment = last.arg
        /\ repeatCount = 0
        /\ last.seeks # <<>>
        /\ last.seeks[Len(last.seeks)]
             = calculatePreciseTiming(segments[last.arg + 1]).startTime
        /\ (last.plays > 0 /\ last.armed > 0) <=> (playbackMode # "normal")

\* C8: after setMode(m), from any state and for any m, repeatCount is 0 and
\* playbackMode is m.
C8_SetModeResetsRepeatCount ==
    last.op = "setMode" => (repeatCount = 0 /\ playbackMode = last.arg)

\* C8 witness: setMode('repeat') has been called in Repeat mode with
\* repeatCount = 2.
C8_Witness ==
    /\ last.op = "setMode"
    /\ last.arg = "repeat"
    /\ last.mode = "repeat"
    /\ last.rep = 2
    /\ repeatCount = 0

\* C9: with a player attached and a transcript loaded, setMode('listen') and
\* setMode('repeat') seek to the current segment and start playback, and
\* setMode('normal') issues no seek and no play.
C9_SetModeStartsPlayback ==
    (last.op = "setMode" /\ playerRef /\ Len(segments) > 0) =>
        IF last.arg = "normal"
          THEN last.seeks = <<>> /\ last.plays = 0
          ELSE /\ Len(last.seeks) = 1
               /\ last.plays = 1
               /\ ~paused
               /\ HasSegment(segments, currentSegment)
               /\ last.seeks[1] \in
                    {segments[currentSegment + 1].start,
                     calculatePreciseTiming(segments[currentSegment + 1]).startTime}

\* C10: every bounded playback started while the mode is Repeat, the one
\* started by the setMode('repeat') call that enters Repeat included, runs
\* from the buffered window start to the buffered window end; every
\* playback started while the mode is Normal or Listen runs from raw
\* segment.start to raw segment.end.
C10_ModeDependentWindowing ==
    (last.op \in {"setMode", "playCurrentSegment"} /\ last.armed > 0) =>
        LET segment == segments[segmentTimeout[1].index + 1]
            window == IF playbackMode = "repeat"
                        THEN calculatePreciseTiming(segment)
                        ELSE [startTime |-> segment.start, endTime |-> segment.end]
        IN  /\ last.seeks = <<window.startTime>>
            /\ segmentTimeout[1].endTime = window.endTime

\* C11: in every reachable state, for every interleaving of end-of-media
\* events and their delayed replay callbacks, repeatCount <= maxRepeats.
C11_RepeatBound ==
    repeatCount <= maxRepeats

\* The timers handleVideoEnd arms when it reads the state c (lines 322-332).
ReplayExpected(c) ==
    IF c.playbackMode = "repeat" /\ c.repeatCount < maxRepeats THEN <<c>> ELSE <<>>

AdvanceExpected(c) ==
    IF ~(c.playbackMode = "repeat" /\ c.repeatCount < maxRepeats)
         /\ c.playbackMode = "listen" /\ c.currentSegment < Len(c.segments) - 1
      THEN <<c>> ELSE <<>>

\* C12: an end-of-media notification arriving with a player attached is
\* handled with the mode, repeatCount and currentSegment current when it
\* arrives: in Repeat mode with repeatCount < maxRepeats it arms the 1 s
\* replay of the current segment, in Listen mode before the last segment it
\* arms the 1.5 s advance to currentSegment + 1, in every other case it arms
\* no timer; the notification itself leaves currentSegment, repeatCount and
\* the mode unchanged.
C12_EndOfMediaHandling ==
    [][(last'.op = "ended" /\ listeners # <<>>) =>
          /\ replayTimers' = Enqueue(replayTimers, ReplayExpected(Closure), MaxEndTimers)
          /\ advanceTimers' = Enqueue(advanceTimers, AdvanceExpected(Closure), MaxEndTimers)
          /\ UNCHANGED <<currentSegment, repeatCount, playbackMode>>]_vars

\* C13: when two time-progress events less than 100 ms apart resolve to two
\* different new indices B and C (both different from the committed index
\* A), B is never committed, and onSegmentChange is fired at most once, for
\* C: neither event commits B or notifies B.
C13_DebounceSuppressesFlicker ==
    [][LET A == last.cur
           B == segmentToShow(segments, ptime)
           C == segmentToShow(segments', ptime')
       IN  (last.op = "seeking" /\ last'.op = "seeking" /\ Len(segments) > 0
              /\ B # A /\ C # A /\ C # B) =>
             /\ currentSegment # B
             /\ currentSegment' # B
             /\ last.changes = <<>>
             /\ last'.changes \in {<<>>, <<C>>}]_vars

\* C14: when a time-progress event resolves to a new index B and a later
\* event within the 100 ms resolves back to the committed index A, the
\* commit of B is cancelled: currentSegment is A before, between and after
\* the two events (the index of the most recent event), and no
\* notification is fired.
C14_DebounceRestart ==
    [][LET A == last.cur
           B == segmentToShow(segments, ptime)
           C == segmentToShow(segments', ptime')
       IN  (last.op = "seeking" /\ last'.op = "seeking" /\ Len(segments) > 0
              /\ B # A /\ C = A) =>
             /\ currentSegment = A
             /\ currentSegment' = A
             /\ last.changes = <<>>
             /\ last'.changes = <<>>]_vars

\* C15: after handlePlayerReady has been invoked twice in succession with
\* the same player, one time-progress event that changes the resolved
\* segment produces exactly one onSegmentChange notification.
C15_IdempotentAttach ==
    (last.op = "seeking" /\ Len(segments) > 0
       /\ Len(listeners) = 2 /\ listeners[1] = listeners[2]
       /\ segmentToShow(segments, ptime) # last.cur) =>
        Len(last.changes) = 1

\* C16: after the teardown no timer armed by the controller is pending (the
\* end-boundary watch, the 100 ms initialisation and playSegmentByIndex
\* timers, the 1 s replay, the 1.5 s auto-advance), and no step notifies the
\* host or commands the player; a second teardown changes nothing of this.
C16_DetachReleasesEverything ==
    ~mounted =>
        /\ segmentTimeout = <<>>
        /\ initTimers = <<>>
        /\ replayTimers = <<>>
        /\ advanceTimers = <<>>
        /\ playTimers = <<>>
        /\ last.changes = <<>>
        /\ last.seeks = <<>>
        /\ last.plays = 0
        /\ last.pauses = 0

\* C17: in every reachable state, for every interleaving of
\* playCurrentSegment, goToSegment, setMode, playSegmentByIndex,
\* time-progress events and timer firings, at most one end-boundary watch
\* timer is pending. (The component arms no segment-change debounce timer,
\* so none is ever pending.)
C17_SingleWatch ==
    Len(segmentTimeout) <= 1

\* C17 witness: the deferred play of playSegmentByIndex started a bounded
\* playback while the watch of an earlier one was pending, and one watch is
\* pending afterwards.
C17_Witness ==
    /\ last.op = "deferredPlay"
    /\ last.watching = 1
    /\ last.armed = 1
    /\ Len(segmentTimeout) = 1

\* C18: after setMode(m), or goToSegment(i) with a valid i, completes, no
\* timer armed before the call is pending any more, so none can later pause
\* the player, start playback or change currentSegment or repeatCount: no
\* 1 s replay and no 1.5 s auto-advance is pending, and the only watch that
\* may be pending is the one the call itself armed.
C18_SupersedingCancelsStaleTimers ==
    (\/ last.op = "setMode"
     \/ last.op = "goToSegment" /\ HasSegment(segments, last.arg)) =>
        /\ replayTimers = <<>>
        /\ advanceTimers = <<>>
        /\ Len(segmentTimeout) <= last.armed

\* C19: once a non-empty transcript is loaded, currentSegment is in
\* [0, segmentCount) in every reachable state, whatever time-progress
\* events, goToSegment calls, external selections (selectedSegmentIndex,
\* -1 included) and transcript reloads have happened.
C19_CurrentIndexValid ==
    Len(segments) > 0 => HasSegment(segments, currentSegment)

\* C20 as claimed: loading a transcript replaces the segment sequence, sets
\* currentSegment to the index the resolution of handleTimeUpdate gives for
\* the player's current time, or to 0 if no player is attached, and leaves
\* the mode unchanged.
C20_TranscriptLoad ==
    (last.op = "loadTranscript" /\ Len(last.arg) > 0) =>
        /\ segments = parsedSegments(last.arg)
        /\ currentSegment = (IF playerRef THEN segmentToShow(segments, ptime) ELSE 0)
        /\ playbackMode = last.mode

\* C20 as amended: loading a transcript replaces the segment sequence and
\* leaves the mode and repeatCount unchanged; it sets currentSegment to 0
\* when the transcript is non-empty, whatever the player's time and whether
\* a player is attached or not, and leaves it unchanged when the transcript
\* is empty. With a player attached and a non-empty transcript it arms the
\* 100 ms initializeSubtitleDisplay of the new render, which is what later
\* resolves the player's time (by the raw rule start <= t <= end).
C20_TranscriptLoadAmended ==
    last.op = "loadTranscript" =>
        /\ segments = parsedSegments(last.arg)
        /\ playbackMode = last.mode
        /\ repeatCount = last.rep
        /\ currentSegment = (IF Len(last.arg) > 0 THEN 0 ELSE last.cur)
        /\ (playerRef /\ Len(last.arg) > 0) =>
              /\ initTimers # <<>>
              /\ initTimers[Len(initTimers)]
                   = [segments |-> segments, currentSegment |-> 0]

\* C20 witness: a reload of the two-segment transcript, outside Normal mode,
\* with a player attached at a time the resolution gives index 1 for, and
\* index 1 committed before the reload: index 0 is committed after it.
C20_Witness ==
    /\ last.op = "loadTranscript"
    /\ last.arg = TwoSegments
    /\ playerRef
    /\ last.mode # "normal"
    /\ last.cur = 1
    /\ segmentToShow(segments, ptime) = 1
    /\ currentSegment = 0

\* C21: a transcript containing a segment with end <= start or a negative
\* time is rejected at load, so no reachable state holds such a segment in
\* the active sequence.
C21_MalformedRejected ==
    \A i \in 1..Len(segments) :
        /\ segments[i].end > segments[i].start
        /\ segments[i].start >= 0

\* C22: changeSpeed called with a rate outside {0.5, 0.75, 1, 1.25, 1.5}
\* leaves the stored playbackSpeed unchanged and forwards nothing to the
\* player; called with an allowed rate, with a player attached, it forwards
\* exactly that rate.
C22_RateValidation ==
    [][last'.op = "changeSpeed" =>
          IF last'.arg \in AllowedRates
            THEN playerRef => playerRate' = last'.arg
            ELSE UNCHANGED <<playbackSpeed, playerRate>>]_vars

\* C23: while no player is attached or no transcript is loaded,
\* playCurrentSegment and the time-progress handler (player event or poll)
\* issue no player command, arm no timer, fire no callback and change no
\* controller state, and the navigateToSegmentStart and playSegment calls of
\* goToSegment issue no player command and arm no watch.
C23_NoPlayerNoTranscript ==
    [][(~playerRef \/ Len(segments) = 0) =>
          /\ last'.op \in {"playCurrentSegment", "timeupdate", "poll"} =>
                /\ last'.seeks = <<>> /\ last'.plays = 0 /\ last'.pauses = 0
                /\ last'.armed = 0 /\ last'.changes = <<>>
                /\ UNCHANGED <<segments, currentSegment, playbackMode, repeatCount,
                               playerRef, segmentTimeout, ptime, paused, initTimers,
                               replayTimers, advanceTimers>>
          /\ last'.op = "goToSegment" =>
                /\ last'.seeks = <<>> /\ last'.plays = 0 /\ last'.armed = 0
                /\ UNCHANGED <<segmentTimeout, ptime, paused>>]_vars

\* C24: every change of the committed currentSegment caused by clock
\* tracking (player event, poll), by goToSegment, by the handle's
\* playSegmentByIndex or by the initial resolution is accompanied by exactly
\* one onSegmentChange call, which carries the new index.
C24_SegmentChangeNotified ==
    [][(/\ last'.op \in {"timeupdate", "poll", "initializeSubtitleDisplay",
                         "goToSegment", "playSegmentByIndex"}
        /\ currentSegment' # currentSegment)
          => last'.changes = <<currentSegment'>>]_vars

\* C25: onSegmentComplete(i, segments[i]) is fired only when the player's
\* reported time has reached the buffered end of segment i, and only for
\* playback in Listen or Repeat mode.
C25_SegmentCompleteOnlyAtEnd ==
    [][last'.op = "checkEndTime" =>
          /\ HasSegment(segments, last'.arg)
          /\ ptime >= calculatePreciseTiming(segments[last'.arg + 1]).endTime
          /\ playbackMode \in {"listen", "repeat"}]_vars

\* C26: repeatCount is 0 immediately after setMode(m), after goToSegment(i)
\* with a valid i and after the handle's playSegmentByIndex(i) with a valid i.
C26_RepeatCountReset ==
    /\ last.op = "setMode" => repeatCount = 0
    /\ (last.op \in {"goToSegment", "playSegmentByIndex"}
           /\ HasSegment(segments, last.arg)) => repeatCount = 0

\* C27: mode changes only through setMode: player events, polls, the end
\* of the media (including at the repeat bound), goToSegment,
\* playCurrentSegment, playSegmentByIndex, a transcript reload and every
\* timer callback leave it unchanged.
C27_ModeFrame ==
    [][playbackMode' # playbackMode => last'.op = "setMode"]_vars

\* The media has ended in Repeat mode with the repeat bound reached, and the
\* mode is still Repeat.
C27_Witness ==
    /\ last.op = "ended"
    /\ last.mode = "repeat"
    /\ last.rep >= maxRepeats
    /\ playbackMode = "repeat"

\* C28: a segment with a timed word and segment.end - lastWordEnd <= 0.5
\* (a gap of at most 0.1 and a last word ending after the segment included)
\* gets endTime = max(lastWordEnd + 0.30, segment.end + 0.15) and
\* startTime = max(0, firstWordStart - 0.15).
C28_TrustedWordTiming ==
    (timingOut # <<>> /\ HasTimedWord(timingIn)
       /\ timingIn.end - LastTimedEnd(timingIn) <= 10) =>
        /\ timingOut[1].endTime =
              (IF LastTimedEnd(timingIn) + 6 >= timingIn.end + 3
                 THEN LastTimedEnd(timingIn) + 6
                 ELSE timingIn.end + 3)
        /\ timingOut[1].startTime =
              (IF FirstTimedStart(timingIn) > 3 THEN FirstTimedStart(timingIn) - 3 ELSE 0)

\* C28 witness: a computed window of a segment whose last timed word ends
\* after the segment and whose first timed word starts later than 0.15 s.
C28_Witness ==
    /\ timingOut # <<>>
    /\ HasTimedWord(timingIn)
    /\ LastTimedEnd(timingIn) > timingIn.end
    /\ FirstTimedStart(timingIn) > 3
    /\ timingOut[1].endTime = LastTimedEnd(timingIn) + 6
    /\ timingOut[1].startTime = FirstTimedStart(timingIn) - 3

\* The segment without the words that lack a numeric start or a numeric end.
WithoutUntimedWords(segment) ==
    [segment EXCEPT
       !.words = SelectSeq(@, LAMBDA w : Len(w.start) = 1 /\ Len(w.end) = 1)]

\* C29: calculatePreciseTiming gives a segment the same window as it gives
\* the segment with every untimed word removed; an untimed word contributes
\* no time to startTime or endTime, also as the first or the last word.
C29_UntimedWordsIgnored ==
    timingOut # <<>> =>
        timingOut[1] = calculatePreciseTiming(WithoutUntimedWords(timingIn))

\* C29 witness: a computed window of a segment whose first word is untimed
\* and whose second word is timed and starts later than 0.15 s: the window
\* starts 0.15 s before the second word, not at 0.
C29_Witness ==
    /\ timingOut # <<>>
    /\ Len(timingIn.words) = 2
    /\ Len(timingIn.words[1].start) = 0
    /\ Len(timingIn.words[2].start) = 1
    /\ Len(timingIn.words[2].end) = 1
    /\ timingIn.words[2].start[1] > 3
    /\ timingOut[1].startTime = timingIn.words[2].start[1] - 3

\* C30: for every segment with 0 <= start < end and any list of timed
\* words, in any order and at any position relative to the segment,
\* calculatePreciseTiming returns duration = endTime - startTime with
\* duration > 0.
C30_PositiveDuration ==
    (timingOut # <<>> /\ 0 <= timingIn.start /\ timingIn.start < timingIn.end) =>
        /\ timingOut[1].duration = timingOut[1].endTime - timingOut[1].startTime
        /\ timingOut[1].duration > 0

\* The segments are sorted by time: each ends no earlier than it starts, and
\* starts and ends do not decrease along the sequence.
SortedByTime(segs) ==
    /\ \A i \in 1..Len(segs) : segs[i].start <= segs[i].end
    /\ \A i \in 1..(Len(segs) - 1) :
          segs[i].start <= segs[i + 1].start /\ segs[i].end <= segs[i + 1].end

\* The time lies in no segment's window.
InNoWindow(segs, t) ==
    \A i \in 1..Len(segs) :
        ~(t >= calculatePreciseTiming(segs[i]).startTime
            /\ t <= calculatePreciseTiming(segs[i]).endTime)

\* C31: for a transcript sorted by time and a time in no segment's window,
\* the resolution returns the segment i whose window starts at or before the
\* time while the next window starts after it, the last index for a time
\* past the last window's end, and 0 for a time before the first window's
\* start.
C31_GapResolution ==
    (resolveOut # <<>> /\ SortedByTime(resolveIn.segs)
       /\ InNoWindow(resolveIn.segs, resolveIn.time)) =>
        LET segs == resolveIn.segs
            t == resolveIn.time
            n == Len(segs)
        IN  /\ \A i \in 1..(n - 1) :
                  (calculatePreciseTiming(segs[i]).startTime <= t
                     /\ t < calculatePreciseTiming(segs[i + 1]).startTime)
                    => resolveOut[1] = i - 1
            /\ t > calculatePreciseTiming(segs[n]).endTime => resolveOut[1] = n - 1
            /\ t < calculatePreciseTiming(segs[1]).startTime => resolveOut[1] = 0

\* C31 witness: a resolved time in the gap between the windows of two sorted
\* segments, resolved to the first of them.
C31_Witness ==
    /\ resolveOut # <<>>
    /\ Len(resolveIn.segs) = 2
    /\ SortedByTime(resolveIn.segs)
    /\ resolveIn.time > calculatePreciseTiming(resolveIn.segs[1]).endTime
    /\ resolveIn.time < calculatePreciseTiming(resolveIn.segs[2]).startTime
    /\ resolveOut[1] = 0

\* C32: the end-boundary watch armed by playSegment is cancelled as soon as
\* the user pauses the player or seeks: after a user pause or a user seek no
\* watch remains pending.
C32_WatchCancelled ==
    [][(/\ last'.op = "player"
        /\ \/ ~paused /\ paused'
           \/ paused' = paused /\ ptime' # ptime)
          => segmentTimeout' = <<>>]_vars

\* C33: with a player attached and a non-empty transcript, when the
\* player's events are dropped, the 500 ms poll alone eventually makes
\* currentSegment equal to the index resolved for the player's current time.
C33_PollSelfHeals ==
    (playerRef /\ Len(segments) > 0)
        ~> (Len(segments) > 0 /\ currentSegment = segmentToShow(segments, ptime))

\* C33 witness: with no handler registered for the player's events having
\* acted, a poll found another index committed and committed the index
\* resolved for the player's time.
C33_Witness ==
    /\ last.op = "poll"
    /\ last.cur # currentSegment
    /\ ptime > 0
    /\ currentSegment = segmentToShow(segments, ptime)

\* C34: the deferred initial resolution initializeSubtitleDisplay computes
\* the same index as the resolution of the time-progress events and the
\* poll, for the same transcript and the same time, also in the gaps
\* between segments and in the buffered margins around a segment.
C34_SingleResolutionRule ==
    resolveOut # <<>> =>
        initialSegment(resolveIn.segs, resolveIn.time) = resolveOut[1]

\* C35: handleSaveEdit with parsed end <= parsed start updates none of the
\* segment's text, start and end; with end > start it replaces all three
\* fields of the segment at that index with the entered values; so after
\* any sequence of edits every edited segment satisfies end > start.
C35_EditAcceptance ==
    [][last'.op = "handleSaveEdit" =>
          LET a == last'.arg
              startSeconds == parseTimeFromInput(a.start)
              endSeconds == parseTimeFromInput(a.end)
          IN  /\ endSeconds <= startSeconds => editedSegments' = editedSegments
              /\ endSeconds > startSeconds =>
                    editedSegments' =
                      [editedSegments EXCEPT
                         ![a.index + 1] = [text |-> a.text, start |-> startSeconds,
                                           end |-> endSeconds]]
              /\ \A i \in 1..Len(editedSegments') :
                    editedSegments'[i].end > editedSegments'[i].start]_vars

\* C36: whenever an end-boundary watch is pending, the segment it bounds is
\* segments[currentSegment]; in particular the deferred play of
\* playSegmentByIndex(a) does not start playback of segment a while
\* currentSegment is another index.
C36_PlayedSegmentIsCurrent ==
    /\ \A k \in 1..Len(segmentTimeout) : segmentTimeout[k].index = currentSegment
    /\ (last.op = "deferredPlay" /\ last.plays > 0) => last.arg = currentSegment

\* C37: a debounced segment-change commit that is pending when
\* goToSegment(i) is called with a valid i does not afterwards set
\* currentSegment to the index resolved before the navigation: when the
\* pending commit fires right after the navigation, currentSegment stays i.
C37_NavigationNotOverwritten ==
    [][(/\ last.op = "goToSegment"
        /\ HasSegment(segments, last.arg)
        /\ last'.op = "segmentChangeCommit")
          => currentSegment' = last.arg]_vars

\* The segments are sorted by start time and by end time.
SortedByStartAndEnd(segs) ==
    \A i \in 1..(Len(segs) - 1) :
        segs[i].start <= segs[i + 1].start /\ segs[i].end <= segs[i + 1].end

C39_NoSpuriousNotification ==
    [][last'.op \in {"goToSegment", "timeupdate", "poll"}
          => \A k \in 1..Len(last'.changes) : last'.changes[k] # currentSegment]_vars

====
